---------------------------- MODULE Spec2Model ----------------------------
(***************************************************************************)
(* Model of the Cloud Run discovery filter of pittgoogle-user-demos        *)
(* (src/cloud-run/filtering/main.py): the HTTP endpoint run(), the filter  *)
(* filter_alert(), the temporal tests on the detection history, and the    *)
(* hostless-candidate test on the template and science cutouts; and of the *)
(* request handlers of the classifier modules (src/SuperNNova/main.py,     *)
(* src/cloud-run/SuperNNova/main.py, src/classifier/main.py,               *)
(* src/MicroLIA/main.py).                                                  *)
(*                                                                         *)
(* Conventions.                                                            *)
(*  - An MJD float is a fixed-point integer, in tenths of a day.           *)
(*  - Sky coordinates and their errors are integers, in milliarcseconds;   *)
(*    all detections of a model alert lie on one meridian, so that the     *)
(*    great-circle separation is exactly the difference of declinations.   *)
(*  - A numpy array is a record [shape, data, mask]: data maps the         *)
(*    0-based index pairs to integer pixel values, mask is the set of      *)
(*    masked index pairs (empty for a plain ndarray).                      *)
(*  - The Pub/Sub attribute n_previous_detections is set upstream to the   *)
(*    length of prv_sources; the model's alerts keep them equal.           *)
(***************************************************************************)
EXTENDS Integers, Sequences, FiniteSets, TLC

VARIABLES
    pc,                        \* "idle" | "received" | "published" | "responded";
                               \* "drawn" | "applied"; "classified" | "checked"
                               \* (concurrent requests); the last call made
                               \* (classifier requests)
    envelope,                  \* flask.request.get_json() of the request
    is_intra_night_discovery,  \* filter_alert's local
    is_inter_night_discovery,  \* filter_alert's local
    candidate,                 \* _is_candidate: "not_evaluated" | "True" | "False" | "raised"
    response,                  \* what run() returned
    intra_topic,               \* messages published to TOPIC_INTRA_NIGHT_DISCOVERIES
    inter_topic,               \* messages published to TOPIC_INTER_NIGHT_DISCOVERIES
    args,                      \* arguments of the function applied (function specifications)
    ret,                       \* its return value
    TOPIC,                     \* messages published to the SuperNNova TOPIC
    TABLE,                     \* rows inserted into the SuperNNova TABLE
    ps_topic,                  \* messages published to the MicroLIA Pub/Sub topic
    bq_table,                  \* rows inserted into the MicroLIA BigQuery table
    calls,                     \* the calls a classifier handler made, in order
    locals                     \* the locals of the classifier handler, per request

vars == <<pc, envelope, is_intra_night_discovery, is_inter_night_discovery,
          candidate, response, intra_topic, inter_topic, args, ret,
          TOPIC, TABLE, ps_topic, bq_table, calls, locals>>

classifier_vars == <<TOPIC, TABLE, ps_topic, bq_table, calls, locals>>

handler_vars == <<envelope, is_intra_night_discovery, is_inter_night_discovery,
                  candidate, response, intra_topic, inter_topic>>

-----------------------------------------------------------------------------
(* Program constants *)

HTTP_204 == 204

HTTP_400 == 400

-----------------------------------------------------------------------------
(* Bounds of the model *)

\* longest detection history of a model alert
MaxPrev == 3

\* side of the full-size model cutouts, in pixels
StampSide == 30

\* largest image side and largest patch radius given to _crop_center_patch
MaxCropSide == 7

MaxCropRadius == 3

\* side of the arrays whose masks are given to _check_hostless_conditions
MaskSide == 3

\* side of the model cutouts that are narrower than twice the crop radius
NarrowSide == 10

-----------------------------------------------------------------------------
(* Arithmetic helpers *)

Abs(x) == IF x < 0 THEN -x ELSE x

\* Python's int() of the float n/2: truncation toward zero
IntOfHalf(n) == IF n >= 0 THEN n \div 2 ELSE -((-n) \div 2)

Min(a, b) == IF a < b THEN a ELSE b

Max(a, b) == IF a > b THEN a ELSE b

RECURSIVE SumOver(_, _)
\* the sum of f[x] over the finite set S
SumOver(S, f) ==
    IF S = {} THEN 0
    ELSE LET x == CHOOSE y \in S : TRUE
         IN  f[x] + SumOver(S \ {x}, f)

-----------------------------------------------------------------------------
(* astropy.time.Time(mjd, format="mjd").datetime.strftime("%Y-%m-%d") *)

\* mutant: the MJD rounded to the nearest day instead of truncated
Mut_MjdDayNumber_round(mjd) == (mjd + 5) \div 10

\* the calendar day an MJD falls on, counted from MJD 0
MjdDayNumber(mjd) == mjd \div 10

\* the Gregorian date <<year, month, day>> of an MJD day number
GregorianDate(dayNumber) ==
    LET jdn == dayNumber + 2400001
        a   == jdn + 32044
        b   == (4 * a + 3) \div 146097
        c   == a - (146097 * b) \div 4
        d   == (4 * c + 3) \div 1461
        e   == c - (1461 * d) \div 4
        m   == (5 * e + 2) \div 153
    IN  << 100 * b + d - 4800 + m \div 10,
           m + 3 - 12 * (m \div 10),
           e - (153 * m + 2) \div 5 + 1 >>

\* the decimal digits of n, zero-padded to the given width
Digits(n, width) == [i \in 1..width |-> (n \div (10 ^ (width - i))) % 10]

\* strftime("%Y-%m-%d") of a date: the string as a sequence of characters
StrftimeYmd(date) ==
    Digits(date[1], 4) \o <<"-">> \o Digits(date[2], 2) \o <<"-">> \o Digits(date[3], 2)

MjdToDatetimeStr(mjd) == StrftimeYmd(GregorianDate(MjdDayNumber(mjd)))

\* _mjds_to_datetime_strs: (previous_mjd, latest_mjd)
_mjds_to_datetime_strs(alert) ==
    << [i \in 1..Len(alert.prv_sources) |->
            MjdToDatetimeStr(alert.prv_sources[i].midpointMjdTai)],
       MjdToDatetimeStr(alert.mjd) >>

\* Python's set(list): the set of the elements of a sequence
PySet(s) == {s[i] : i \in 1..Len(s)}

-----------------------------------------------------------------------------
(* The temporal tests *)

_is_intra_night_discovery(alert) ==
    IF alert.attributes.n_previous_detections # 1 THEN FALSE
    ELSE LET strs == _mjds_to_datetime_strs(alert)
         IN  strs[1][1] = strs[2]

\* mutant: one prior detection on another day counts as inter-night too
Mut_is_inter_night_one_or_two(alert) ==
    IF alert.attributes.n_previous_detections \notin {1, 2} THEN FALSE
    ELSE LET strs == _mjds_to_datetime_strs(alert)
         IN  Cardinality(PySet(strs[1])) = 1 /\ strs[1][1] # strs[2]

\* mutant: the two prior detections are not compared with each other
Mut_is_inter_night_first_only(alert) ==
    IF alert.attributes.n_previous_detections # 2 THEN FALSE
    ELSE LET strs == _mjds_to_datetime_strs(alert)
         IN  strs[1][1] # strs[2]

_is_inter_night_discovery(alert) ==
    IF alert.attributes.n_previous_detections # 2 THEN FALSE
    ELSE LET strs == _mjds_to_datetime_strs(alert)
         IN  Cardinality(PySet(strs[1])) = 1 /\ strs[1][1] # strs[2]

-----------------------------------------------------------------------------
(* numpy arrays and FITS cutouts *)

\* the index pairs of an array of the given shape
Idx(shape) == (0..(shape[1] - 1)) \X (0..(shape[2] - 1))

\* the pixel value a cutout stores at index pair p: a flat background of 0
\* with square spots of the given side and value painted over it in order
PixelOf(spots, p) ==
    LET over == {k \in 1..Len(spots) :
                    /\ spots[k].row <= p[1] /\ p[1] < spots[k].row + spots[k].side
                    /\ spots[k].col <= p[2] /\ p[2] < spots[k].col + spots[k].side}
    IN  IF over = {} THEN 0
        ELSE spots[CHOOSE k \in over : \A j \in over : j <= k].val

\* _read_stamp_data: fits.open(io.BytesIO(cutout))[0].data, a plain ndarray.
\* (An absent cutout makes fits.open raise; _is_candidate models that.)
_read_stamp_data(cutout) ==
    [shape |-> <<cutout.h, cutout.w>>,
     data  |-> [p \in Idx(<<cutout.h, cutout.w>>) |->
                    PixelOf(cutout.spots, p)],
     mask  |-> {}]

\* np.ma.count_masked
count_masked(arr) == Cardinality(arr.mask)

-----------------------------------------------------------------------------
(* astropy.stats.sigma_clip(data, sigma, maxiters): cenfunc median, stdfunc  *)
(* std, over the whole array, returning a masked array.  The sample is kept *)
(* as a histogram hist (value -> number of pixels) and the set K of values  *)
(* that survived so far; every comparison is exact integer arithmetic.      *)

\* the number of sample pixels with a value in K below v
CountBelow(hist, K, v) == SumOver({u \in K : u < v}, hist)

\* the k-th smallest sample value (k from 1)
KthSmallest(hist, K, k) ==
    CHOOSE v \in K : CountBelow(hist, K, v) < k /\ k <= CountBelow(hist, K, v) + hist[v]

\* n, sum, sum of squares and twice the median of the sample
SampleStats(hist, K) ==
    LET n == SumOver(K, hist)
    IN  [n    |-> n,
         s    |-> SumOver(K, [v \in K |-> v * hist[v]]),
         q    |-> SumOver(K, [v \in K |-> v * v * hist[v]]),
         med2 |-> IF n = 0 THEN 0
                  ELSE IF n % 2 = 1 THEN 2 * KthSmallest(hist, K, (n + 1) \div 2)
                  ELSE KthSmallest(hist, K, n \div 2) + KthSmallest(hist, K, n \div 2 + 1)]

\* median - sigma*std <= v <= median + sigma*std, with std^2 = (n*q - s^2)/n^2
WithinBounds(v, st, sig) ==
    st.n * st.n * (2 * v - st.med2) * (2 * v - st.med2)
        <= 4 * sig * sig * (st.n * st.q - st.s * st.s)

\* the clipping loop: the statistics of the last iteration that ran
RECURSIVE ClipLoop(_, _, _, _, _)
ClipLoop(hist, K, iteration, sig, iters) ==
    LET st   == SampleStats(hist, K)
        kept == {v \in K : WithinBounds(v, st, sig)}
    IN  IF kept = K \/ iteration + 1 >= iters
        THEN st
        ELSE ClipLoop(hist, kept, iteration + 1, sig, iters)

sigma_clip(arr, kwargs) ==
    LET unmasked == Idx(arr.shape) \ arr.mask
        values   == {arr.data[p] : p \in unmasked}
        hist     == [v \in values |-> Cardinality({p \in unmasked : arr.data[p] = v})]
        st       == ClipLoop(hist, values, 0, kwargs.sigma, kwargs.maxiters)
        outside  == {v \in values : ~WithinBounds(v, st, kwargs.sigma)}
    IN  IF unmasked = {} \/ outside = {} THEN arr
        ELSE [arr EXCEPT !.mask = arr.mask \cup {p \in unmasked : arr.data[p] \in outside}]

-----------------------------------------------------------------------------
(* The positional test (present in the source, commented out, never called) *)

\* _is_within_positional_uncertainty.  ra, dec and the errors are alert
\* fields in degrees; the model holds them in milliarcseconds (1 degree =
\* 3600000 mas) on one meridian.  separation is taken in arcseconds
\* (mas/1000) and positional_uncertainty is left in degrees (mas/3600000):
\*   sep/1000 <= 3 * sqrt(sumsq)/3600000   iff   (1200 * sep)^2 <= sumsq
\* (the first conjunct follows from the second and keeps the square in range)
_is_within_positional_uncertainty(alert) ==
    LET prev       == alert.prv_sources[1]
        separation == Abs(alert.dec - prev.dec)
        sumsq      == alert.ra_err * alert.ra_err + alert.dec_err * alert.dec_err
                      + prev.raErr * prev.raErr + prev.decErr * prev.decErr
    IN  /\ 1200 * separation <= sumsq
        /\ (1200 * separation) * (1200 * separation) <= sumsq

-----------------------------------------------------------------------------
(* The hostless detection *)

\* the configs dict of _is_candidate
configs ==
    [sigma_clipping_kwargs |-> [sigma |-> 3, maxiters |-> 10],
     hostless_detection_with_clipping |->
         [crop_radius |-> 12,
          max_number_of_pixels_clipped |-> 5,
          min_number_of_pixels_clipped |-> 3]]

\* Python's a[start:stop] on an axis of the given length: the first index
\* taken and the index after the last
SliceBounds(start, stop, length) ==
    LET norm(i) == IF i < 0 THEN Max(i + length, 0) ELSE Min(i, length)
    IN  <<norm(start), Max(norm(start), norm(stop))>>

_crop_center_patch(input_image, patch_radius) ==
    LET image_shape    == input_image.shape
        center_patch_x == IntOfHalf(image_shape[1] - 2 * patch_radius)
        center_patch_y == IntOfHalf(image_shape[2] - 2 * patch_radius)
        rows == SliceBounds(center_patch_x, center_patch_x + patch_radius * 2, image_shape[1])
        cols == SliceBounds(center_patch_y, center_patch_y + patch_radius * 2, image_shape[2])
        shape == <<rows[2] - rows[1], cols[2] - cols[1]>>
    IN  [shape |-> shape,
         data  |-> [p \in Idx(shape) |-> input_image.data[<<rows[1] + p[1], cols[1] + p[2]>>]],
         mask  |-> {p \in Idx(shape) : <<rows[1] + p[1], cols[1] + p[2]>> \in input_image.mask}]

\* mutant: >= where the code has >
Mut_check_hostless_conditions_ge(science_clipped, template_clipped, detection_config) ==
    \/ /\ count_masked(science_clipped) >= detection_config.max_number_of_pixels_clipped
       /\ count_masked(template_clipped) < detection_config.min_number_of_pixels_clipped
    \/ /\ count_masked(template_clipped) >= detection_config.max_number_of_pixels_clipped
       /\ count_masked(science_clipped) < detection_config.min_number_of_pixels_clipped

\* mutant: the template-only detection is left out
Mut_check_hostless_conditions_science_only(science_clipped, template_clipped, detection_config) ==
    /\ count_masked(science_clipped) > detection_config.max_number_of_pixels_clipped
    /\ count_masked(template_clipped) < detection_config.min_number_of_pixels_clipped

\* mutant: or where the code has and
Mut_check_hostless_conditions_or(science_clipped, template_clipped, detection_config) ==
    \/ count_masked(science_clipped) > detection_config.max_number_of_pixels_clipped
    \/ count_masked(template_clipped) < detection_config.min_number_of_pixels_clipped
    \/ count_masked(template_clipped) > detection_config.max_number_of_pixels_clipped
    \/ count_masked(science_clipped) < detection_config.min_number_of_pixels_clipped

_check_hostless_conditions(science_clipped, template_clipped, detection_config) ==
    LET science_only_detection ==
            /\ count_masked(science_clipped) > detection_config.max_number_of_pixels_clipped
            /\ count_masked(template_clipped) < detection_config.min_number_of_pixels_clipped
        template_only_detection ==
            /\ count_masked(template_clipped) > detection_config.max_number_of_pixels_clipped
            /\ count_masked(science_clipped) < detection_config.min_number_of_pixels_clipped
    IN  science_only_detection \/ template_only_detection

\* mutant: no early return; the cropped pass always decides
Mut_HostlessRun_always_crop(science_stamp, template_stamp, cfgs) ==
    LET science_patch  == _crop_center_patch(science_stamp,
                              cfgs.hostless_detection_with_clipping.crop_radius)
        template_patch == _crop_center_patch(template_stamp,
                              cfgs.hostless_detection_with_clipping.crop_radius)
    IN  [returned |-> _check_hostless_conditions(
                          sigma_clip(science_patch, cfgs.sigma_clipping_kwargs),
                          sigma_clip(template_patch, cfgs.sigma_clipping_kwargs),
                          cfgs.hostless_detection_with_clipping),
         cropped  |-> TRUE,
         patches  |-> <<science_patch, template_patch>>]

\* the run of _run_hostless_detection_with_clipped_data: what it returns and
\* what it computed on the way (the patches only when it cropped)
HostlessRun(science_stamp, template_stamp, cfgs) ==
    LET science_clipped  == sigma_clip(science_stamp, cfgs.sigma_clipping_kwargs)
        template_clipped == sigma_clip(template_stamp, cfgs.sigma_clipping_kwargs)
        is_hostless_candidate ==
            _check_hostless_conditions(science_clipped, template_clipped,
                                       cfgs.hostless_detection_with_clipping)
        science_patch  == _crop_center_patch(science_stamp,
                              cfgs.hostless_detection_with_clipping.crop_radius)
        template_patch == _crop_center_patch(template_stamp,
                              cfgs.hostless_detection_with_clipping.crop_radius)
    IN  IF is_hostless_candidate
        THEN [returned |-> is_hostless_candidate, cropped |-> FALSE, patches |-> <<>>]
        ELSE [returned |-> _check_hostless_conditions(
                               sigma_clip(science_patch, cfgs.sigma_clipping_kwargs),
                               sigma_clip(template_patch, cfgs.sigma_clipping_kwargs),
                               cfgs.hostless_detection_with_clipping),
              cropped  |-> TRUE,
              patches  |-> <<science_patch, template_patch>>]

_run_hostless_detection_with_clipped_data(science_stamp, template_stamp, cfgs) ==
    HostlessRun(science_stamp, template_stamp, cfgs).returned

\* mutant: the positional test is called as well
Mut_is_candidate_positional(alert) ==
    LET template_stamp == alert.dict.cutoutTemplate
        science_stamp  == alert.dict.cutoutScience
    IN  IF ~template_stamp.present \/ ~science_stamp.present THEN "raised"
        ELSE IF /\ _is_within_positional_uncertainty(alert)
                /\ _run_hostless_detection_with_clipped_data(
                       sigma_clip(_read_stamp_data(template_stamp), configs.sigma_clipping_kwargs),
                       sigma_clip(_read_stamp_data(science_stamp), configs.sigma_clipping_kwargs),
                       configs)
             THEN "True" ELSE "False"

\* _is_candidate: "True" | "False", or "raised" when a cutout is absent
\* (fits.open of an empty buffer raises OSError).  The value named
\* science_stamp_clipped is built from the template cutout and vice versa.
_is_candidate(alert) ==
    LET template_stamp == alert.dict.cutoutTemplate
        science_stamp  == alert.dict.cutoutScience
    IN  IF ~template_stamp.present \/ ~science_stamp.present THEN "raised"
        ELSE LET science_stamp_clipped ==
                     sigma_clip(_read_stamp_data(template_stamp), configs.sigma_clipping_kwargs)
                 template_stamp_clipped ==
                     sigma_clip(_read_stamp_data(science_stamp), configs.sigma_clipping_kwargs)
             IN  IF _run_hostless_detection_with_clipped_data(
                        science_stamp_clipped, template_stamp_clipped, configs)
                 THEN "True" ELSE "False"

-----------------------------------------------------------------------------
(* The endpoint *)

\* pittgoogle.Alert.from_cloud_run: BadRequest unless the envelope is a
\* non-empty dict holding a "message"
from_cloud_run(env) ==
    IF env.kind = "empty"
    THEN [ok |-> FALSE, exc |-> "Bad Request: no Pub/Sub message received"]
    ELSE IF env.kind = "no_message"
    THEN [ok |-> FALSE, exc |-> "Bad Request: invalid Pub/Sub message format"]
    ELSE [ok |-> TRUE, alert |-> env.message]

\* mutant: the result of _is_candidate is ignored
Mut_filter_alert_ignore_candidate(alert) ==
    LET intra == _is_intra_night_discovery(alert)
        inter == _is_inter_night_discovery(alert)
        cand  == IF intra \/ inter THEN _is_candidate(alert) ELSE "not_evaluated"
    IN  [is_intra_night_discovery |-> intra,
         is_inter_night_discovery |-> inter,
         candidate     |-> cand,
         publish_intra |-> IF cand # "raised" /\ intra THEN <<alert>> ELSE <<>>,
         publish_inter |-> IF cand # "raised" /\ ~intra /\ inter THEN <<alert>> ELSE <<>>,
         raised        |-> cand = "raised",
         returned      |-> [body |-> "", status |-> HTTP_204]]

\* mutant: _is_candidate is called whether or not the alert is a discovery,
\* and a candidate that is not intra-night goes to the inter-night topic
Mut_filter_alert_ungated(alert) ==
    LET intra == _is_intra_night_discovery(alert)
        inter == _is_inter_night_discovery(alert)
        cand  == _is_candidate(alert)
    IN  [is_intra_night_discovery |-> intra,
         is_inter_night_discovery |-> inter,
         candidate     |-> cand,
         publish_intra |-> IF cand = "True" /\ intra THEN <<alert>> ELSE <<>>,
         publish_inter |-> IF cand = "True" /\ ~intra THEN <<alert>> ELSE <<>>,
         raised        |-> cand = "raised",
         returned      |-> [body |-> "", status |-> HTTP_204]]

\* mutant: an alert that was not published is answered 400
Mut_filter_alert_status(alert) ==
    LET intra == _is_intra_night_discovery(alert)
        inter == _is_inter_night_discovery(alert)
        cand  == IF intra \/ inter THEN _is_candidate(alert) ELSE "not_evaluated"
    IN  [is_intra_night_discovery |-> intra,
         is_inter_night_discovery |-> inter,
         candidate     |-> cand,
         publish_intra |-> IF cand = "True" /\ intra THEN <<alert>> ELSE <<>>,
         publish_inter |-> IF cand = "True" /\ ~intra /\ inter THEN <<alert>> ELSE <<>>,
         raised        |-> cand = "raised",
         returned      |-> [body |-> "", status |-> IF cand = "True" THEN HTTP_204 ELSE HTTP_400]]

\* filter_alert: its locals, what it publishes to each topic, and what it
\* returns (raised: the exception of _is_candidate leaves the function)
filter_alert(alert) ==
    LET intra == _is_intra_night_discovery(alert)
        inter == _is_inter_night_discovery(alert)
        cand  == IF intra \/ inter THEN _is_candidate(alert) ELSE "not_evaluated"
    IN  [is_intra_night_discovery |-> intra,
         is_inter_night_discovery |-> inter,
         candidate     |-> cand,
         publish_intra |-> IF cand = "True" /\ intra THEN <<alert>> ELSE <<>>,
         publish_inter |-> IF cand = "True" /\ ~intra /\ inter THEN <<alert>> ELSE <<>>,
         raised        |-> cand = "raised",
         returned      |-> [body |-> "", status |-> HTTP_204]]

-----------------------------------------------------------------------------
(* Inputs *)

\* MJDs 59000.1, 59000.9 (2020-05-31), 59002.5 (2020-06-02), 59061.5 (2020-07-31)
Mjds == {590001, 590009, 590025, 590615}

\* detection histories as upstream sends them: ascending in time, at most
\* MaxPrev long, every prior detection at declination 0
RECURSIVE Histories(_)
Histories(n) ==
    IF n = 0 THEN {<<>>}
    ELSE Histories(n - 1) \cup
         {Append(h, [midpointMjdTai |-> t, ra |-> 0, dec |-> 0, raErr |-> 100, decErr |-> 100]) :
              <<h, t>> \in {x \in Histories(n - 1) \X Mjds :
                               /\ Len(x[1]) = n - 1
                               /\ (n > 1 => x[1][n - 1].midpointMjdTai <= x[2])}}

NoCutout == [present |-> FALSE]

Cutout(h, w, spots) == [present |-> TRUE, h |-> h, w |-> w, spots |-> spots]

Spot(row, col, side, val) == [row |-> row, col |-> col, side |-> side, val |-> val]

\* a square of the given side at the centre of a StampSide x StampSide stamp
CentreSpot(side, val) ==
    Spot((StampSide - side) \div 2, (StampSide - side) \div 2, side, val)

FlatStamp == Cutout(StampSide, StampSide, <<>>)

\* a 7x7 bright square at the centre
SquareStamp == Cutout(StampSide, StampSide, <<CentreSpot(7, 10)>>)

\* three bright pixels in the first row, outside the centre patch
Corner3Stamp ==
    Cutout(StampSide, StampSide, <<Spot(0, 0, 1, 10), Spot(0, 1, 1, 10), Spot(0, 2, 1, 10)>>)

\* a 3x3 bright square in the corner, outside the centre patch
Corner9Stamp == Cutout(StampSide, StampSide, <<Spot(0, 0, 3, 10)>>)

\* a 2x2 bright square at the centre
Centre4Stamp == Cutout(StampSide, StampSide, <<CentreSpot(2, 10)>>)

\* a 2x2 bright square at the centre and a 2x2 faint one beside it: the faint
\* one is clipped only once the bright one is gone
GradedStamp ==
    Cutout(StampSide, StampSide,
           <<CentreSpot(2, 10), Spot(StampSide \div 2 + 2, StampSide \div 2 + 2, 2, 1)>>)

\* the bright centre square and the three corner pixels together
SquareCorner3Stamp ==
    Cutout(StampSide, StampSide,
           <<CentreSpot(7, 10), Spot(0, 0, 1, 10), Spot(0, 1, 1, 10), Spot(0, 2, 1, 10)>>)

\* a 9x9 bright square at the centre: an outlier of the full stamp, not of
\* its centre patch
WideSquareStamp == Cutout(StampSide, StampSide, <<CentreSpot(9, 10)>>)

NarrowFlatStamp == Cutout(NarrowSide, NarrowSide, <<>>)

\* a narrow stamp, a 3x3 bright square at its far corner and three bright
\* pixels at its near corner
NarrowFarStamp ==
    Cutout(NarrowSide, NarrowSide,
           <<Spot(NarrowSide - 3, NarrowSide - 3, 3, 10),
             Spot(0, 0, 1, 10), Spot(0, 1, 1, 10), Spot(0, 2, 1, 10)>>)

\* a narrow stamp with three bright pixels at its near corner
NarrowNearStamp ==
    Cutout(NarrowSide, NarrowSide, <<Spot(0, 0, 1, 10), Spot(0, 1, 1, 10), Spot(0, 2, 1, 10)>>)

HostlessCutouts ==
    {FlatStamp, SquareStamp, Corner3Stamp, Corner9Stamp, Centre4Stamp, GradedStamp,
     SquareCorner3Stamp, WideSquareStamp, NarrowFlatStamp, NarrowFarStamp, NarrowNearStamp}

\* the cutouts of the model alerts: absent, flat, with a bright source, and a
\* flat one of another shape
HandlerCutouts == {NoCutout, FlatStamp, SquareStamp, NarrowFlatStamp}

Alerts ==
    {[attributes     |-> [n_previous_detections |-> Len(h)],
      prv_sources    |-> h,
      mjd            |-> t,
      ra             |-> 0,
      dec            |-> d,
      ra_err         |-> 100,
      dec_err        |-> 100,
      dict           |-> [cutoutTemplate |-> ct, cutoutScience |-> cs]] :
        <<h, t, d, ct, cs>> \in
            {x \in Histories(MaxPrev) \X Mjds \X {0, 10000} \X HandlerCutouts \X HandlerCutouts :
                 Len(x[1]) > 0 => x[1][Len(x[1])].midpointMjdTai <= x[2]}}

Envelopes ==
    {[kind |-> "empty"], [kind |-> "no_message"]}
        \cup {[kind |-> "pubsub", message |-> a] : a \in Alerts}

-----------------------------------------------------------------------------
(* The endpoint as a state machine: one request, start to response *)

NoResponse == [body |-> "", status |-> 0]

HandlerIdle ==
    /\ envelope = [kind |-> "empty"]
    /\ is_intra_night_discovery = FALSE
    /\ is_inter_night_discovery = FALSE
    /\ candidate = "not_evaluated"
    /\ response = NoResponse
    /\ intra_topic = <<>>
    /\ inter_topic = <<>>

\* the classifier modules' topics and tables before any request
ClassifierIdle ==
    /\ TOPIC = <<>>
    /\ TABLE = <<>>
    /\ ps_topic = <<>>
    /\ bq_table = <<>>
    /\ calls = <<>>
    /\ locals = <<>>

Init ==
    /\ pc = "idle"
    /\ HandlerIdle
    /\ ClassifierIdle
    /\ args = <<>>
    /\ ret = <<>>

\* Pub/Sub pushes one message to the route
Receive(env) ==
    /\ pc = "idle"
    /\ pc' = "received"
    /\ envelope' = env
    /\ UNCHANGED <<is_intra_night_discovery, is_inter_night_discovery, candidate,
                   response, intra_topic, inter_topic, args, ret, classifier_vars>>

\* run(): the envelope does not unpack
RunBadRequest ==
    /\ pc = "received"
    /\ ~from_cloud_run(envelope).ok
    /\ pc' = "responded"
    /\ response' = [body |-> from_cloud_run(envelope).exc, status |-> HTTP_400]
    /\ UNCHANGED <<envelope, is_intra_night_discovery, is_inter_night_discovery,
                   candidate, intra_topic, inter_topic, args, ret, classifier_vars>>

\* run(): the alert unpacks and filter_alert runs as far as its call of
\* publish, in which the request waits for Pub/Sub: the alert is in its topic
\* and nothing is returned yet.  When _is_candidate raises, nothing was
\* published and flask answers 500.
RunFilter ==
    /\ pc = "received"
    /\ from_cloud_run(envelope).ok
    /\ \E f \in {filter_alert(from_cloud_run(envelope).alert)} :
           /\ is_intra_night_discovery' = f.is_intra_night_discovery
           /\ is_inter_night_discovery' = f.is_inter_night_discovery
           /\ candidate' = f.candidate
           /\ intra_topic' = intra_topic \o f.publish_intra
           /\ inter_topic' = inter_topic \o f.publish_inter
           /\ response' = IF f.raised
                          THEN [body |-> "Internal Server Error", status |-> 500]
                          ELSE response
           /\ pc' = IF f.raised THEN "responded" ELSE "published"
    /\ UNCHANGED <<envelope, args, ret, classifier_vars>>

\* filter_alert returns and run() returns what it returned
RunReturn ==
    /\ pc = "published"
    /\ response' = filter_alert(from_cloud_run(envelope).alert).returned
    /\ pc' = "responded"
    /\ UNCHANGED <<envelope, is_intra_night_discovery, is_inter_night_discovery,
                   candidate, intra_topic, inter_topic, args, ret, classifier_vars>>

Next ==
    \/ \E env \in Envelopes : Receive(env)
    \/ RunBadRequest
    \/ RunFilter
    \/ RunReturn

Spec == Init /\ [][Next]_vars

-----------------------------------------------------------------------------
(* The endpoint under concurrent requests: the server runs run() for        *)
(* several requests at once, each in a worker of its own.  Here pc          *)
(* and envelope map each worker to its request's position and envelope;    *)
(* the locals of filter_alert map each frame to its value; the two topics   *)
(* are shared; ret logs the requests answered, each with its response.      *)

\* the workers of the server
NWorkers == 2

Workers == 1..NWorkers

\* most requests the server receives in a model run
MaxInvocations == 3

\* one prior detection at MJD 59000.1, the way Histories builds it
OnePrior ==
    <<[midpointMjdTai |-> 590001, ra |-> 0, dec |-> 0, raErr |-> 100, decErr |-> 100]>>

\* an alert with the given history, MJD and cutouts
AlertOf(h, t, ct, cs) ==
    [attributes     |-> [n_previous_detections |-> Len(h)],
     prv_sources    |-> h,
     mjd            |-> t,
     ra             |-> 0,
     dec            |-> 0,
     ra_err         |-> 100,
     dec_err        |-> 100,
     dict           |-> [cutoutTemplate |-> ct, cutoutScience |-> cs]]

\* the requests sent concurrently: an envelope that does not unpack, an
\* intra-night candidate, an intra-night discovery whose cutouts are absent,
\* an alert with no history and an inter-night candidate
ConcurrentEnvelopes ==
    {[kind |-> "empty"],
     [kind |-> "pubsub", message |-> AlertOf(OnePrior, 590009, NarrowFlatStamp, NarrowFarStamp)],
     [kind |-> "pubsub", message |-> AlertOf(OnePrior, 590009, NoCutout, NoCutout)],
     [kind |-> "pubsub", message |-> AlertOf(<<>>, 590009, NarrowFlatStamp, NarrowFarStamp)],
     [kind |-> "pubsub", message |-> AlertOf(OnePrior \o OnePrior, 590025,
                                            NarrowFarStamp, NarrowFlatStamp)]}

\* mutant: the locals of filter_alert are module globals, one frame for all
Mut_Frame_shared(w) == 1

\* the frame that holds the locals of the call of filter_alert made for the
\* request of worker w: every call has a frame of its own
Frame(w) == w

\* requests received and not yet answered
InFlight == {w \in Workers : pc[w] # "idle"}

\* the log entry of an answered request
Answered(w, intra, inter, cand, resp) ==
    [envelope |-> envelope[w],
     is_intra_night_discovery |-> intra, is_inter_night_discovery |-> inter,
     candidate |-> cand, response |-> resp]

InitConcurrent ==
    /\ pc = [w \in Workers |-> "idle"]
    /\ envelope = [w \in Workers |-> [kind |-> "empty"]]
    /\ is_intra_night_discovery = [w \in Workers |-> FALSE]
    /\ is_inter_night_discovery = [w \in Workers |-> FALSE]
    /\ candidate = [w \in Workers |-> "not_evaluated"]
    /\ response = [w \in Workers |-> NoResponse]
    /\ intra_topic = <<>>
    /\ inter_topic = <<>>
    /\ ClassifierIdle
    /\ args = <<>>
    /\ ret = <<>>

\* run() returns: the response leaves the worker, the request and the frame
\* of its locals are gone, and the worker is free for the next request
Return(w, intra, inter, cand, resp) ==
    /\ ret' = Append(ret, Answered(w, intra, inter, cand, resp))
    /\ pc' = [pc EXCEPT ![w] = "idle"]
    /\ envelope' = [envelope EXCEPT ![w] = [kind |-> "empty"]]
    /\ is_intra_night_discovery' = [is_intra_night_discovery EXCEPT ![Frame(w)] = FALSE]
    /\ is_inter_night_discovery' = [is_inter_night_discovery EXCEPT ![Frame(w)] = FALSE]
    /\ candidate' = [candidate EXCEPT ![Frame(w)] = "not_evaluated"]

\* Pub/Sub pushes one message to the route; the server hands it to a worker
ConcurrentReceive(w, env) ==
    /\ pc[w] = "idle"
    /\ Len(ret) + Cardinality(InFlight) < MaxInvocations
    /\ pc' = [pc EXCEPT ![w] = "received"]
    /\ envelope' = [envelope EXCEPT ![w] = env]
    /\ UNCHANGED <<is_intra_night_discovery, is_inter_night_discovery, candidate, response,
                   intra_topic, inter_topic, args, ret, classifier_vars>>

\* run(): the envelope does not unpack
ConcurrentBadRequest(w) ==
    /\ pc[w] = "received"
    /\ ~from_cloud_run(envelope[w]).ok
    /\ Return(w, FALSE, FALSE, "not_evaluated",
              [body |-> from_cloud_run(envelope[w]).exc, status |-> HTTP_400])
    /\ UNCHANGED <<response, intra_topic, inter_topic, args, classifier_vars>>

\* filter_alert: the two temporal tests
ConcurrentTemporal(w) ==
    /\ pc[w] = "received"
    /\ from_cloud_run(envelope[w]).ok
    /\ pc' = [pc EXCEPT ![w] = "classified"]
    /\ is_intra_night_discovery' =
           [is_intra_night_discovery EXCEPT
               ![Frame(w)] = _is_intra_night_discovery(from_cloud_run(envelope[w]).alert)]
    /\ is_inter_night_discovery' =
           [is_inter_night_discovery EXCEPT
               ![Frame(w)] = _is_inter_night_discovery(from_cloud_run(envelope[w]).alert)]
    /\ UNCHANGED <<envelope, candidate, response, intra_topic, inter_topic, args, ret,
                   classifier_vars>>

\* filter_alert: the candidate test, when the alert is a discovery; when
\* _is_candidate raises, the request ends in a server error
ConcurrentCandidate(w) ==
    /\ pc[w] = "classified"
    /\ \E cand \in {IF is_intra_night_discovery[Frame(w)] \/ is_inter_night_discovery[Frame(w)]
                      THEN _is_candidate(from_cloud_run(envelope[w]).alert)
                      ELSE candidate[Frame(w)]} :
           IF cand = "raised"
           THEN Return(w, is_intra_night_discovery[Frame(w)],
                       is_inter_night_discovery[Frame(w)], cand,
                       [body |-> "Internal Server Error", status |-> 500])
           ELSE /\ candidate' = [candidate EXCEPT ![Frame(w)] = cand]
                /\ pc' = [pc EXCEPT ![w] = "checked"]
                /\ UNCHANGED <<envelope, is_intra_night_discovery, is_inter_night_discovery, ret>>
    /\ UNCHANGED <<response, intra_topic, inter_topic, args, classifier_vars>>

\* filter_alert: the call of publish, in which the request waits for Pub/Sub
\* with the alert already in its topic
ConcurrentPublish(w) ==
    /\ pc[w] = "checked"
    /\ pc' = [pc EXCEPT ![w] = "published"]
    /\ intra_topic' =
           IF candidate[Frame(w)] = "True" /\ is_intra_night_discovery[Frame(w)]
           THEN Append(intra_topic, from_cloud_run(envelope[w]).alert)
           ELSE intra_topic
    /\ inter_topic' =
           IF /\ candidate[Frame(w)] = "True"
              /\ ~is_intra_night_discovery[Frame(w)]
              /\ is_inter_night_discovery[Frame(w)]
           THEN Append(inter_topic, from_cloud_run(envelope[w]).alert)
           ELSE inter_topic
    /\ UNCHANGED <<envelope, is_intra_night_discovery, is_inter_night_discovery, candidate,
                   response, args, ret, classifier_vars>>

\* filter_alert returns and run() returns what it returned
ConcurrentReturn(w) ==
    /\ pc[w] = "published"
    /\ Return(w, is_intra_night_discovery[Frame(w)], is_inter_night_discovery[Frame(w)],
              candidate[Frame(w)], [body |-> "", status |-> HTTP_204])
    /\ UNCHANGED <<response, intra_topic, inter_topic, args, classifier_vars>>

NextConcurrent ==
    \E w \in Workers :
        \/ \E env \in ConcurrentEnvelopes : ConcurrentReceive(w, env)
        \/ ConcurrentBadRequest(w)
        \/ ConcurrentTemporal(w)
        \/ ConcurrentCandidate(w)
        \/ ConcurrentPublish(w)
        \/ ConcurrentReturn(w)

SpecConcurrent == InitConcurrent /\ [][NextConcurrent]_vars

-----------------------------------------------------------------------------
(* _check_hostless_conditions applied to pairs of masked arrays *)

\* a MaskSide x MaskSide array with its first k pixels (row-major) masked
MaskedArray(k) ==
    [shape |-> <<MaskSide, MaskSide>>,
     data  |-> [p \in Idx(<<MaskSide, MaskSide>>) |-> 0],
     mask  |-> {p \in Idx(<<MaskSide, MaskSide>>) : p[1] * MaskSide + p[2] < k}]

InitCheck ==
    /\ pc = "drawn"
    /\ HandlerIdle
    /\ ClassifierIdle
    /\ args \in {[science_clipped |-> MaskedArray(a), template_clipped |-> MaskedArray(b)] :
                    a \in 0..(MaskSide * MaskSide), b \in 0..(MaskSide * MaskSide)}
    /\ ret = <<>>

ApplyCheck ==
    /\ pc = "drawn"
    /\ pc' = "applied"
    /\ ret' = _check_hostless_conditions(args.science_clipped, args.template_clipped,
                                         configs.hostless_detection_with_clipping)
    /\ UNCHANGED <<args, handler_vars, classifier_vars>>

NextCheck == ApplyCheck

SpecCheck == InitCheck /\ [][NextCheck]_vars

-----------------------------------------------------------------------------
(* _run_hostless_detection_with_clipped_data applied to pairs of stamps,    *)
(* each sigma-clipped once before the call, as _is_candidate passes them    *)

InitHostless ==
    /\ pc = "drawn"
    /\ HandlerIdle
    /\ ClassifierIdle
    /\ args \in {[science_stamp  |-> sigma_clip(_read_stamp_data(a), configs.sigma_clipping_kwargs),
                  template_stamp |-> sigma_clip(_read_stamp_data(b), configs.sigma_clipping_kwargs)] :
                    a \in HostlessCutouts, b \in HostlessCutouts}
    /\ ret = <<>>

ApplyHostless ==
    /\ pc = "drawn"
    /\ pc' = "applied"
    /\ ret' = HostlessRun(args.science_stamp, args.template_stamp, configs)
    /\ UNCHANGED <<args, handler_vars, classifier_vars>>

NextHostless == ApplyHostless

SpecHostless == InitHostless /\ [][NextHostless]_vars

-----------------------------------------------------------------------------
(* _crop_center_patch applied to images of every small shape *)

\* an h x w image whose pixel values name their place, its diagonal masked
LabelledImage(h, w) ==
    [shape |-> <<h, w>>,
     data  |-> [p \in Idx(<<h, w>>) |-> p[1] * w + p[2]],
     mask  |-> {p \in Idx(<<h, w>>) : p[1] = p[2]}]

InitCrop ==
    /\ pc = "drawn"
    /\ HandlerIdle
    /\ ClassifierIdle
    /\ args \in {[input_image |-> LabelledImage(h, w), patch_radius |-> r] :
                    h \in 1..MaxCropSide, w \in 1..MaxCropSide, r \in 1..MaxCropRadius}
    /\ ret = <<>>

ApplyCrop ==
    /\ pc = "drawn"
    /\ pc' = "applied"
    /\ ret' = _crop_center_patch(args.input_image, args.patch_radius)
    /\ UNCHANGED <<args, handler_vars, classifier_vars>>

NextCrop == ApplyCrop

SpecCrop == InitCrop /\ [][NextCrop]_vars

-----------------------------------------------------------------------------
(* _is_within_positional_uncertainty applied to a current detection and one *)
(* prior detection on the same meridian                                     *)

\* declinations of the current detection, in milliarcseconds (the prior
\* detection is at 0)
PositionDecs == {-600, 0, 1, 30, 150, 300, 599, 600, 601, 10000}

\* 1-sigma position errors, in milliarcseconds
PositionErrs == {0, 50, 100}

PositionAlerts ==
    {[attributes     |-> [n_previous_detections |-> 1],
      prv_sources    |-> <<[midpointMjdTai |-> 590001, ra |-> 0, dec |-> 0,
                            raErr |-> e[3], decErr |-> e[4]]>>,
      mjd            |-> 590009,
      ra             |-> 0,
      dec            |-> d,
      ra_err         |-> e[1],
      dec_err        |-> e[2],
      dict           |-> [cutoutTemplate |-> NoCutout, cutoutScience |-> NoCutout]] :
        d \in PositionDecs,
        e \in PositionErrs \X PositionErrs \X PositionErrs \X PositionErrs}

InitPosition ==
    /\ pc = "drawn"
    /\ HandlerIdle
    /\ ClassifierIdle
    /\ args \in {[alert |-> a] : a \in PositionAlerts}
    /\ ret = <<>>

ApplyPosition ==
    /\ pc = "drawn"
    /\ pc' = "applied"
    /\ ret' = _is_within_positional_uncertainty(args.alert)
    /\ UNCHANGED <<args, handler_vars, classifier_vars>>

NextPosition == ApplyPosition

SpecPosition == InitPosition /\ [][NextPosition]_vars

-----------------------------------------------------------------------------
(* The SuperNNova classifier modules: src/SuperNNova/main.py (index),       *)
(* src/cloud-run/SuperNNova/main.py (run) and src/classifier/main.py        *)
(* (index).  classify_lcs is an oracle; probabilities are in tenths.  The   *)
(* handlers read the attribute "kafka.timestamp" of the message, which the  *)
(* broker's consumer attaches and a message published by anyone else need   *)
(* not carry; the values of the timestamp fields of the row and of the      *)
(* outgoing message are left out.  Pub/Sub and BigQuery answer every call.  *)

\* most requests one deployed module receives in a model run
MaxRequests == 2

\* np.argmax of a vector (as a sequence): the 0-based index of the first
\* largest entry
argmax(v) ==
    (CHOOSE i \in 1..Len(v) :
        /\ \A j \in 1..Len(v) : v[j] <= v[i]
        /\ \A j \in 1..(i - 1) : v[j] < v[i]) - 1

\* the attributes of a Pub/Sub message no consumer of the broker stamped
NoAttributes == [key \in {} |-> 0]

\* the incoming ELAsTiCC alerts: the messages of alerts 1 to 3 carry the
\* attribute "kafka.timestamp", the message of alert 4 does not
ClassifierAlerts ==
    {[alertid |-> a, objectid |-> 10 + a, sourceid |-> 20 + a,
      attributes |-> IF a = 4 THEN NoAttributes
                              ELSE [kafka_timestamp |-> 1000 + a]] : a \in 1..4}

\* Python's d[key]: a KeyError is raised unless the dict has the key
PyGetItem(d, key) ==
    IF key \in DOMAIN d THEN [raised |-> "", value |-> d[key]]
                         ELSE [raised |-> "KeyError"]

\* classify_lcs computes the probabilities from the light curve of the alert
\* and the trained model, which is fixed: pred_probs.flatten() of what the
\* oracle answers for each of the alerts
classify_lcs(alert) ==
    CASE alert.alertid = 1 -> <<1, 9>>
      [] alert.alertid = 2 -> <<5, 5>>
      [] alert.alertid = 3 -> <<9, 1>>
      [] alert.alertid = 4 -> <<2, 8>>

ClassifierEnvelopes ==
    {[kind |-> "empty"], [kind |-> "no_message"]}
        \cup {[kind |-> "pubsub", message |-> a] : a \in ClassifierAlerts}

\* _classify, after classify_lcs returned pred_probs: the row for TABLE.
\* The version of the cloud-run module reads alert.attributes["kafka.timestamp"]
\* for the row (elasticcPublishTimestamp) and raises KeyError without it; the
\* version of src/SuperNNova/main.py does not read the attributes.
_classify(module, alert, pred_probs) ==
    IF module = "SuperNNova"
    THEN [raised |-> "",
          classifications |->
              [alertId |-> alert.alertid, diaObjectId |-> alert.objectid,
               diaSourceId |-> alert.sourceid,
               prob_class0 |-> pred_probs[1], prob_class1 |-> pred_probs[2],
               predicted_class |-> argmax(pred_probs)]]
    ELSE LET kafka_timestamp == PyGetItem(alert.attributes, "kafka_timestamp")
         IN  IF kafka_timestamp.raised # ""
             THEN [raised |-> kafka_timestamp.raised]
             ELSE [raised |-> "",
                   classifications |->
                       [alertId |-> alert.alertid, diaObjectId |-> alert.objectid,
                        diaSourceId |-> alert.sourceid,
                        prob_class0 |-> pred_probs[1], prob_class1 |-> pred_probs[2],
                        predicted_class |-> argmax(pred_probs),
                        brokerVersion |-> "v0.6"]]

\* _create_outgoing_alert: the message for TOPIC.  The version of
\* src/SuperNNova/main.py reads alert_in.attributes["kafka.timestamp"] for the
\* message and raises KeyError without it, then adds the ids to the
\* attributes (add_id_attributes); the version of the cloud-run module takes
\* the timestamp from the row.
_create_outgoing_alert(module, alert_in, results) ==
    LET outgoing_dict == [alertId |-> alert_in.alertid,
                          diaSourceId |-> alert_in.sourceid,
                          brokerName |-> "Pitt-Google Broker",
                          brokerVersion |-> "v0.6",
                          classifierName |-> "SuperNNova_v1.3",
                          classifications |-> <<[classId |-> 2222,
                                                 probability |-> results.prob_class0]>>]
    IN  IF module = "SuperNNova"
        THEN LET kafka_timestamp == PyGetItem(alert_in.attributes, "kafka_timestamp")
             IN  IF kafka_timestamp.raised # ""
                 THEN [raised |-> kafka_timestamp.raised]
                 ELSE [raised |-> "",
                       alert_out |->
                           [dict |-> outgoing_dict,
                            attributes |->
                                [kafka_timestamp |-> kafka_timestamp.value,
                                 alertid |-> alert_in.alertid,
                                 objectid |-> alert_in.objectid,
                                 sourceid |-> alert_in.sourceid,
                                 supernnova |-> results.predicted_class]]]
        ELSE [raised |-> "",
              alert_out |->
                  [dict |-> outgoing_dict,
                   attributes |-> [kafka_timestamp |-> alert_in.attributes.kafka_timestamp,
                                   supernnova |-> results.predicted_class]]]

\* one entry of the call log
Call(name, alertid) == [call |-> name, alertId |-> alertid]

\* what a handler does with a request when an exception leaves it after
\* classify_lcs returned: nothing is published or inserted and flask answers
\* 500
RaisedAfterClassify(alert, exc) ==
    [calls |-> <<Call("classify_lcs", alert.alertid)>>,
     publish |-> <<>>, insert_rows |-> <<>>,
     raised |-> exc,
     returned |-> [body |-> "Internal Server Error", status |-> 500]]

\* index() of src/SuperNNova/main.py: the calls it makes in order, what it
\* publishes, what it inserts, what it returns.  The argument of
\* TOPIC.publish is evaluated before the call: when _create_outgoing_alert
\* raises, publish is not called.
index(env, pred_probs) ==
    IF ~from_cloud_run(env).ok
    THEN [calls |-> <<>>, publish |-> <<>>, insert_rows |-> <<>>, raised |-> "",
          returned |-> [body |-> from_cloud_run(env).exc, status |-> HTTP_400]]
    ELSE LET alert == from_cloud_run(env).alert
             classifications == _classify("SuperNNova", alert, pred_probs).classifications
             outgoing == _create_outgoing_alert("SuperNNova", alert, classifications)
         IN  IF outgoing.raised # ""
             THEN RaisedAfterClassify(alert, outgoing.raised)
             ELSE [calls |-> <<Call("classify_lcs", alert.alertid),
                               Call("publish", alert.alertid),
                               Call("insert_rows", alert.alertid)>>,
                   publish |-> <<outgoing.alert_out>>,
                   insert_rows |-> <<classifications>>,
                   raised |-> "",
                   returned |-> [body |-> "", status |-> HTTP_204]]

\* run() of src/cloud-run/SuperNNova/main.py: when _classify raises, nothing
\* after it runs
run(env, pred_probs) ==
    IF ~from_cloud_run(env).ok
    THEN [calls |-> <<>>, publish |-> <<>>, insert_rows |-> <<>>, raised |-> "",
          returned |-> [body |-> from_cloud_run(env).exc, status |-> HTTP_400]]
    ELSE LET alert == from_cloud_run(env).alert
             classified == _classify("cloud-run/SuperNNova", alert, pred_probs)
         IN  IF classified.raised # ""
             THEN RaisedAfterClassify(alert, classified.raised)
             ELSE [calls |-> <<Call("classify_lcs", alert.alertid),
                               Call("publish", alert.alertid),
                               Call("insert_rows", alert.alertid)>>,
                   publish |-> <<_create_outgoing_alert("cloud-run/SuperNNova", alert,
                                     classified.classifications).alert_out>>,
                   insert_rows |-> <<classified.classifications>>,
                   raised |-> "",
                   returned |-> [body |-> "", status |-> HTTP_204]]

\* str() of a natural number: its decimal digits, as a sequence of characters
RECURSIVE PyStr(_)
PyStr(n) == IF n < 10 THEN <<n>> ELSE PyStr(n \div 10) \o <<n % 10>>

\* _classify_with_snn of src/classifier/main.py: classify_lcs is called, then
\* attrs["kafka.timestamp"] and alert_dict["alert"] are read, then the row
\* for the table is built
_classify_with_snn(alert_dict, attrs, pred_probs) ==
    LET kafka_timestamp == PyGetItem(attrs, "kafka_timestamp")
        elasticc_alert  == PyGetItem(alert_dict, "alert")
    IN  IF kafka_timestamp.raised # ""
        THEN [raised |-> kafka_timestamp.raised]
        ELSE IF elasticc_alert.raised # ""
        THEN [raised |-> elasticc_alert.raised]
        ELSE [raised |-> "",
              snn_dict |-> [alertId |-> elasticc_alert.value.alertid,
                            diaObjectId |-> alert_dict.objectid,
                            diaSourceId |-> alert_dict.sourceid,
                            prob_class0 |-> pred_probs[1], prob_class1 |-> pred_probs[2],
                            predicted_class |-> argmax(pred_probs)]]

\* _create_elasticc_msg of src/classifier/main.py: the message for the topic
classifier_create_elasticc_msg(alert_dict, attrs) ==
    [alertId |-> alert_dict.alert.alertid,
     diaSourceId |-> alert_dict.alert.sourceid,
     brokerName |-> "Pitt-Google Broker",
     brokerVersion |-> "v0.6",
     classifierName |-> "SuperNNova_v1.3",
     classifierParams |-> "",
     classifications |-> <<[classId |-> 2222,
                            probability |-> alert_dict.SuperNNova.prob_class0]>>]

\* index() of src/classifier/main.py: it checks the envelope itself, adds
\* the ids, as strings, to the attributes of the message and calls
\* _classify_with_snn with the alert open_alert returns, which has no key
\* "alert": the KeyError leaves the handler after classify_lcs ran and flask
\* answers 500 (raised: the exception).  Were the row returned, the handler
\* would publish to the topic and insert into the table of the SuperNNova
\* modules and return 204.
classifier_index(env, pred_probs) ==
    IF env.kind = "empty"
    THEN [calls |-> <<>>, publish |-> <<>>, insert_rows |-> <<>>, raised |-> "",
          returned |-> [body |-> "Bad Request: no Pub/Sub message received", status |-> 400]]
    ELSE IF env.kind = "no_message"
    THEN [calls |-> <<>>, publish |-> <<>>, insert_rows |-> <<>>, raised |-> "",
          returned |-> [body |-> "Bad Request: invalid Pub/Sub message format", status |-> 400]]
    ELSE LET msg        == env.message
             alert_dict == msg
             attrs      == [key \in DOMAIN msg.attributes \cup {"diaObjectId", "diaSourceId"} |->
                               CASE key = "diaObjectId" -> PyStr(alert_dict.objectid)
                                 [] key = "diaSourceId" -> PyStr(alert_dict.sourceid)
                                 [] OTHER -> msg.attributes[key]]
             classified == _classify_with_snn(alert_dict, attrs, pred_probs)
         IN  IF classified.raised # ""
             THEN RaisedAfterClassify(alert_dict, classified.raised)
             ELSE [calls |-> <<Call("classify_lcs", alert_dict.alertid),
                               Call("publish_pubsub", alert_dict.alertid),
                               Call("insert_rows", alert_dict.alertid)>>,
                   publish |-> <<[dict |-> classifier_create_elasticc_msg(
                                              [alert |-> alert_dict,
                                               SuperNNova |-> classified.snn_dict], attrs),
                                  attributes |-> attrs]>>,
                   insert_rows |-> <<classified.snn_dict>>,
                   raised |-> "",
                   returned |-> [body |-> "", status |-> 204]]

\* the SuperNNova modules that can be deployed
Modules == {"SuperNNova", "cloud-run/SuperNNova", "classifier"}

\* the handler of the deployed module, run from start to end on a request
Handler(module, env, pred_probs) ==
    CASE module = "SuperNNova"           -> index(env, pred_probs)
      [] module = "cloud-run/SuperNNova" -> run(env, pred_probs)
      [] module = "classifier"           -> classifier_index(env, pred_probs)

\* the server runs the handler for two requests at once, each in a worker
\* of its own: pc and envelope map each worker to the last call its request
\* made and to its envelope, locals maps it to the number of its request
\* and the number of calls the handler made for it; TOPIC and TABLE are shared;
\* args names the deployed module; ret logs the requests answered, each with
\* its response.
ClassifierWorkers == {1, 2}

Busy == {w \in ClassifierWorkers : pc[w] # "idle"}

\* the worker the server hands the next request to: the first free one
FreeWorker ==
    CHOOSE w \in ClassifierWorkers \ Busy : \A v \in ClassifierWorkers \ Busy : w <= v

\* the locals of a handler that is not running
NoFrame == [request |-> 0, done |-> 0]

InitSuperNNova ==
    /\ pc = [w \in ClassifierWorkers |-> "idle"]
    /\ envelope = [w \in ClassifierWorkers |-> [kind |-> "empty"]]
    /\ is_intra_night_discovery = FALSE
    /\ is_inter_night_discovery = FALSE
    /\ candidate = "not_evaluated"
    /\ response = NoResponse
    /\ intra_topic = <<>>
    /\ inter_topic = <<>>
    /\ TOPIC = <<>>
    /\ TABLE = <<>>
    /\ ps_topic = <<>>
    /\ bq_table = <<>>
    /\ calls = <<>>
    /\ locals = [w \in ClassifierWorkers |-> NoFrame]
    /\ args \in {[module |-> m] : m \in Modules}
    /\ ret = <<>>

\* what the handler does with the request of worker w when its calls return
Plan(w) ==
    Handler(args.module, envelope[w],
            IF envelope[w].kind = "pubsub" THEN classify_lcs(envelope[w].message)
                                           ELSE <<0, 0>>)

\* the next call of the handler for the request of worker w
NextCall(w) ==
    IF pc[w] # "idle" /\ locals[w].done < Len(Plan(w).calls)
    THEN Plan(w).calls[locals[w].done + 1].call
    ELSE "none"

\* the request of worker w makes its next call
Called(w) ==
    calls' = Append(calls, [request |-> locals[w].request,
                               call |-> NextCall(w),
                               alertId |-> Plan(w).calls[locals[w].done + 1].alertId])

\* the handler returns or raises: the response leaves the worker, the
\* request and the locals are gone, and the worker is free for the next
\* request
Answer(w, resp) ==
    /\ ret' = Append(ret, [request |-> locals[w].request, envelope |-> envelope[w],
                           response |-> resp])
    /\ pc' = [pc EXCEPT ![w] = "idle"]
    /\ envelope' = [envelope EXCEPT ![w] = [kind |-> "empty"]]
    /\ locals' = [locals EXCEPT ![w] = NoFrame]

\* Pub/Sub pushes one message to the route; the server hands it to a worker
SuperNNovaReceive(w, env) ==
    /\ pc[w] = "idle"
    /\ w = FreeWorker
    /\ Len(ret) + Cardinality(Busy) < MaxRequests
    /\ pc' = [pc EXCEPT ![w] = "received"]
    /\ envelope' = [envelope EXCEPT ![w] = env]
    /\ locals' = [locals EXCEPT ![w] = [request |-> Len(ret) + Cardinality(Busy) + 1,
                                        done |-> 0]]
    /\ UNCHANGED <<is_intra_night_discovery, is_inter_night_discovery, candidate, response,
                   intra_topic, inter_topic, args, ret, TOPIC, TABLE, ps_topic, bq_table,
                   calls>>

\* the envelope does not unpack: the handler returns at once
SuperNNovaBadRequest(w) ==
    /\ pc[w] = "received"
    /\ Plan(w).calls = <<>>
    /\ Answer(w, Plan(w).returned)
    /\ UNCHANGED <<is_intra_night_discovery, is_inter_night_discovery, candidate, response,
                   intra_topic, inter_topic, args, TOPIC, TABLE, ps_topic, bq_table,
                   calls>>

\* _classify: the call of classify_lcs
SuperNNovaClassify(w) ==
    /\ NextCall(w) = "classify_lcs"
    /\ Called(w)
    /\ locals' = [locals EXCEPT ![w].done = @ + 1]
    /\ pc' = [pc EXCEPT ![w] = "classify_lcs"]
    /\ UNCHANGED <<envelope, is_intra_night_discovery, is_inter_night_discovery, candidate,
                   response, intra_topic, inter_topic, args, ret, TOPIC, TABLE, ps_topic,
                   bq_table>>

\* the call of TOPIC.publish, in which the request waits for Pub/Sub with
\* its message already in the topic
SuperNNovaPublish(w) ==
    /\ NextCall(w) = "publish"
    /\ Called(w)
    /\ TOPIC' = TOPIC \o Plan(w).publish
    /\ locals' = [locals EXCEPT ![w].done = @ + 1]
    /\ pc' = [pc EXCEPT ![w] = "publish"]
    /\ UNCHANGED <<envelope, is_intra_night_discovery, is_inter_night_discovery, candidate,
                   response, intra_topic, inter_topic, args, ret, TABLE, ps_topic, bq_table>>

\* the call of insert_rows, in which the request waits for BigQuery with
\* its row already in the table
SuperNNovaInsertRows(w) ==
    /\ NextCall(w) = "insert_rows"
    /\ Called(w)
    /\ TABLE' = TABLE \o Plan(w).insert_rows
    /\ locals' = [locals EXCEPT ![w].done = @ + 1]
    /\ pc' = [pc EXCEPT ![w] = "insert_rows"]
    /\ UNCHANGED <<envelope, is_intra_night_discovery, is_inter_night_discovery, candidate,
                   response, intra_topic, inter_topic, args, ret, TOPIC, ps_topic, bq_table>>

\* the exception the code of the handler raises after the last call it
\* made, if any
Raising(w) ==
    IF locals[w].done = Len(Plan(w).calls) THEN Plan(w).raised ELSE ""

\* an exception leaves the handler and flask answers 500
SuperNNovaRaises(w) ==
    /\ pc[w] \notin {"idle", "received"}
    /\ Raising(w) # ""
    /\ Answer(w, [body |-> "Internal Server Error", status |-> 500])
    /\ UNCHANGED <<is_intra_night_discovery, is_inter_night_discovery, candidate, response,
                   intra_topic, inter_topic, args, TOPIC, TABLE, ps_topic, bq_table,
                   calls>>

\* the handler returns after its last call
SuperNNovaReturn(w) ==
    /\ pc[w] \notin {"idle", "received"}
    /\ locals[w].done = Len(Plan(w).calls)
    /\ Raising(w) = ""
    /\ Answer(w, Plan(w).returned)
    /\ UNCHANGED <<is_intra_night_discovery, is_inter_night_discovery, candidate, response,
                   intra_topic, inter_topic, args, TOPIC, TABLE, ps_topic, bq_table,
                   calls>>

NextSuperNNova ==
    \E w \in ClassifierWorkers :
        \/ \E env \in ClassifierEnvelopes : SuperNNovaReceive(w, env)
        \/ SuperNNovaBadRequest(w)
        \/ SuperNNovaClassify(w)
        \/ SuperNNovaPublish(w)
        \/ SuperNNovaInsertRows(w)
        \/ SuperNNovaRaises(w)
        \/ SuperNNovaReturn(w)

SpecSuperNNova == InitSuperNNova /\ [][NextSuperNNova]_vars

\* Pub/Sub pushes one message to the route of the MicroLIA module
ReceiveClassifier(env) ==
    /\ pc \in {"idle", "responded"}
    /\ Len(ret) < MaxRequests
    /\ pc' = "received"
    /\ envelope' = env
    /\ response' = NoResponse
    /\ UNCHANGED <<is_intra_night_discovery, is_inter_night_discovery, candidate,
                   intra_topic, inter_topic, args, ret, classifier_vars>>

-----------------------------------------------------------------------------
(* The MicroLIA classifier module: src/MicroLIA/main.py.  model.predict is  *)
(* an oracle; the timestamp fields are left out.                            *)

\* the incoming alerts, as open_alert returns them
MicroLIAAlerts ==
    {[alertId |-> a, diaObjectId |-> 10 + a, diaSourceId |-> 20 + a] : a \in 1..4}

\* request.get_json(): nothing, a JSON value that is no dict, a dict without
\* "message", or a Pub/Sub envelope
MicroLIAEnvelopes ==
    {[kind |-> "empty"], [kind |-> "not_a_dict"], [kind |-> "no_message"]}
        \cup {[kind |-> "pubsub",
               message |-> [data |-> a, alertid |-> a.alertId,
                            attributes |-> [kafka_timestamp |-> 1000 + a.alertId]]] :
                  a \in MicroLIAAlerts}

\* model.predict: [[pred_class, pred_prob], ...], the probabilities in tenths
Predictions == {<<<<0, 1>>, <<1, 2>>, <<2, 3>>, <<3, 4>>>>,
                <<<<0, 7>>, <<1, 1>>, <<2, 1>>, <<3, 1>>>>}

\* the positional parameters of `def _classify(model, alert_dict)`
_classify_params == <<"model", "alert_dict">>

\* Python binds the positional arguments of a call to the parameters of the
\* function: a TypeError is raised unless there is one for each
PyBind(params, argv) ==
    IF Len(argv) # Len(params)
    THEN [raised |-> "TypeError"]
    ELSE [raised |-> "", bound |-> argv]

\* the body of MicroLIA's _classify: the row for the BigQuery table
\* (np.argmax of the dict of probabilities is 0)
MicroLIA_classify(model, alert_dict, prediction) ==
    [alertId |-> alert_dict.alertId,
     diaObjectId |-> alert_dict.diaObjectId,
     diaSourceId |-> alert_dict.diaSourceId,
     prob_class0 |-> prediction[1][2], prob_class1 |-> prediction[2][2],
     prob_class2 |-> prediction[3][2], prob_class3 |-> prediction[4][2],
     predicted_class |-> 0]

\* _create_elasticc_msg: the dict literal of classifications repeats its two
\* keys, so the last pair stands
_create_elasticc_msg(alert_dict, attrs) ==
    [alertId |-> alert_dict.alert.alertId,
     diaSourceId |-> alert_dict.alert.diaSourceId,
     brokerName |-> "Pitt-Google Broker",
     brokerVersion |-> "v0.6",
     classifierName |-> "MicroLIA_v2.6",
     classifications |-> <<[classId |-> 2323, probability |-> alert_dict.MicroLIA.prob_class3]>>]

\* index() of src/MicroLIA/main.py: the calls it makes in order, what it
\* inserts, what it publishes, what it returns (raised: an exception leaves
\* the handler and flask answers 500).  _classify is called with one
\* argument: `snn_dict = _classify(alert_dict)`.
MicroLIA_index(env, prediction) ==
    IF env.kind = "empty"
    THEN [calls |-> <<>>, insert_rows |-> <<>>, publish |-> <<>>, raised |-> "",
          returned |-> [body |-> "Bad Request: no Pub/Sub message received", status |-> 400]]
    ELSE IF env.kind \in {"not_a_dict", "no_message"}
    THEN [calls |-> <<>>, insert_rows |-> <<>>, publish |-> <<>>, raised |-> "",
          returned |-> [body |-> "Bad Request: invalid Pub/Sub message format", status |-> 400]]
    ELSE LET msg        == env.message
             alert_dict == msg.data
             attrs      == msg.attributes
             binding    == PyBind(_classify_params, <<alert_dict>>)
         IN  IF binding.raised # ""
             THEN [calls |-> <<>>, insert_rows |-> <<>>, publish |-> <<>>,
                   raised |-> binding.raised,
                   returned |-> [body |-> "Internal Server Error", status |-> 500]]
             ELSE LET snn_dict == MicroLIA_classify(binding.bound[1], binding.bound[2], prediction)
                  IN  [calls |-> <<Call("predict", alert_dict.alertId),
                                   Call("insert_rows_bigquery", alert_dict.alertId),
                                   Call("publish_pubsub", alert_dict.alertId)>>,
                       insert_rows |-> <<snn_dict>>,
                       publish |-> <<_create_elasticc_msg(
                                        [alert |-> alert_dict, MicroLIA |-> snn_dict], attrs)>>,
                       raised |-> "",
                       returned |-> [body |-> "", status |-> 204]]

InitMicroLIA ==
    /\ pc = "idle"
    /\ HandlerIdle
    /\ ClassifierIdle
    /\ args = [module |-> "MicroLIA"]
    /\ ret = <<>>

\* the handler answers the request
HandleMicroLIA ==
    /\ pc = "received"
    /\ \E prediction \in Predictions :
         \E h \in {MicroLIA_index(envelope, prediction)} :
           /\ calls' = calls \o h.calls
           /\ bq_table' = bq_table \o h.insert_rows
           /\ ps_topic' = ps_topic \o h.publish
           /\ response' = h.returned
           /\ ret' = Append(ret, [envelope |-> envelope, response |-> h.returned])
    /\ pc' = "responded"
    /\ UNCHANGED <<envelope, is_intra_night_discovery, is_inter_night_discovery, candidate,
                   intra_topic, inter_topic, args, TOPIC, TABLE, locals>>

NextMicroLIA ==
    \/ \E env \in MicroLIAEnvelopes : ReceiveClassifier(env)
    \/ HandleMicroLIA

SpecMicroLIA == InitMicroLIA /\ [][NextMicroLIA]_vars

-----------------------------------------------------------------------------
(* Vocabulary of the properties *)

\* filter_alert has run on the alert the envelope unpacked to: the request
\* waits in publish or is answered
Filtered == pc \in {"published", "responded"} /\ envelope.kind = "pubsub"

HandledAlert == envelope.message

\* the number of prior detections in the alert's history
NPrior == Len(HandledAlert.prv_sources)

\* the calendar day of an MJD: the MJD truncated to whole days
CalendarDay(mjd) == mjd \div 10

PriorDay(i) == CalendarDay(HandledAlert.prv_sources[i].midpointMjdTai)

CurrentDay == CalendarDay(HandledAlert.mjd)

\* the temporal classification filter_alert acted on
Outcome ==
    IF is_intra_night_discovery THEN "IntraNight"
    ELSE IF is_inter_night_discovery THEN "InterNight"
    ELSE "NoDiscovery"

NothingPublished == intra_topic = <<>> /\ inter_topic = <<>>

BothCutoutsPresent ==
    HandledAlert.dict.cutoutTemplate.present /\ HandledAlert.dict.cutoutScience.present

\* the hostless test on the alert's cutouts, science as science and template
\* as template
HostlessOk ==
    _run_hostless_detection_with_clipped_data(
        sigma_clip(_read_stamp_data(HandledAlert.dict.cutoutScience), configs.sigma_clipping_kwargs),
        sigma_clip(_read_stamp_data(HandledAlert.dict.cutoutTemplate), configs.sigma_clipping_kwargs),
        configs)

\* the positional test of the current detection against history[0]
PositionOk == _is_within_positional_uncertainty(HandledAlert)

NoCutouts ==
    ~HandledAlert.dict.cutoutTemplate.present /\ ~HandledAlert.dict.cutoutScience.present

\* the shape of a cutout's pixel grid
ShapeOf(cutout) == <<cutout.h, cutout.w>>

\* both cutouts are there and their pixel grids have different shapes
ShapesMismatch ==
    /\ BothCutoutsPresent
    /\ ShapeOf(HandledAlert.dict.cutoutTemplate) # ShapeOf(HandledAlert.dict.cutoutScience)

-----------------------------------------------------------------------------
(* Properties of the endpoint (specification Spec) *)

\* C1: a handled alert is published only when it is a discovery and the
\* candidate check is true; to the intra-night topic exactly when the outcome
\* is IntraNight, to the inter-night topic exactly when it is InterNight;
\* nothing on NoDiscovery, never to both topics, never more than once.
C1_PublishPolicy ==
    Filtered =>
        /\ intra_topic = (IF Outcome = "IntraNight" /\ candidate = "True"
                          THEN <<HandledAlert>> ELSE <<>>)
        /\ inter_topic = (IF Outcome = "InterNight" /\ candidate = "True"
                          THEN <<HandledAlert>> ELSE <<>>)
        /\ Len(intra_topic) + Len(inter_topic) <= 1
        /\ (Outcome = "NoDiscovery" => NothingPublished)
        /\ (candidate # "True" => NothingPublished)

\* C1 witness: a candidate intra-night discovery was published, once, to the
\* intra-night topic only.
C1_Witness ==
    /\ Filtered
    /\ Outcome = "IntraNight"
    /\ candidate = "True"
    /\ intra_topic = <<HandledAlert>>
    /\ inter_topic = <<>>

\* C2 as claimed: with exactly one prior detection, on another calendar day
\* than the current detection, the classification is InterNight.
C2_Original ==
    (Filtered /\ NPrior = 1 /\ PriorDay(1) # CurrentDay) => Outcome = "InterNight"

\* C2 as amended: with exactly one prior detection, on another calendar day
\* than the current detection, the classification is NoDiscovery: the
\* candidate check is not run and nothing is published.
C2_Amended ==
    (Filtered /\ NPrior = 1 /\ PriorDay(1) # CurrentDay) =>
        /\ Outcome = "NoDiscovery"
        /\ candidate = "not_evaluated"
        /\ NothingPublished

\* C2 witness: the spec's example, one prior detection at MJD 59000.1 and the
\* current one at 59002.5, with cutouts that pass the hostless test.
C2_Witness ==
    /\ Filtered
    /\ NPrior = 1
    /\ HandledAlert.prv_sources[1].midpointMjdTai = 590001
    /\ HandledAlert.mjd = 590025
    /\ BothCutoutsPresent
    /\ HostlessOk
    /\ Outcome = "NoDiscovery"

\* C3: with exactly one prior detection, on the same calendar day as the
\* current detection, the classification is IntraNight and never InterNight.
C3_SameDayIntraNight ==
    (Filtered /\ NPrior = 1 /\ PriorDay(1) = CurrentDay) =>
        /\ is_intra_night_discovery
        /\ ~is_inter_night_discovery
        /\ Outcome = "IntraNight"

\* C3 witness: the spec's example, one prior detection at MJD 59000.1 and the
\* current one at 59000.9.
C3_Witness ==
    /\ Filtered
    /\ NPrior = 1
    /\ HandledAlert.prv_sources[1].midpointMjdTai = 590001
    /\ HandledAlert.mjd = 590009
    /\ Outcome = "IntraNight"

\* C4: with exactly two prior detections the classification is InterNight
\* iff both fall on one calendar day and that day is not the current
\* detection's; in every other two-prior case it is NoDiscovery.
C4_TwoPriorInterNight ==
    (Filtered /\ NPrior = 2) =>
        Outcome = (IF PriorDay(1) = PriorDay(2) /\ PriorDay(1) # CurrentDay
                   THEN "InterNight" ELSE "NoDiscovery")

\* C4 witness: two prior detections at different times of one day, the
\* current one on a later day, classified InterNight.
C4_Witness ==
    /\ Filtered
    /\ NPrior = 2
    /\ HandledAlert.prv_sources[1].midpointMjdTai # HandledAlert.prv_sources[2].midpointMjdTai
    /\ PriorDay(1) = PriorDay(2)
    /\ Outcome = "InterNight"

\* C5: with an empty detection history the classification is NoDiscovery and
\* nothing is published.
C5_EmptyHistory ==
    (Filtered /\ NPrior = 0) => (Outcome = "NoDiscovery" /\ NothingPublished)

\* C5 witness: an alert with no history whose cutouts pass the hostless test
\* was answered.
C5_Witness ==
    /\ Filtered
    /\ NPrior = 0
    /\ BothCutoutsPresent
    /\ HostlessOk
    /\ response.status = HTTP_204

\* C6: whenever the outcome is NoDiscovery the alert is no candidate and the
\* candidate check is not evaluated, whatever the position and the cutouts.
C6_NoDiscoveryNotEvaluated ==
    (Filtered /\ Outcome = "NoDiscovery") =>
        (candidate = "not_evaluated" /\ NothingPublished)

\* C6 witness: a NoDiscovery alert with prior detections, whose position and
\* cutouts would both pass.
C6_Witness ==
    /\ Filtered
    /\ Outcome = "NoDiscovery"
    /\ NPrior >= 1
    /\ BothCutoutsPresent
    /\ HostlessOk
    /\ PositionOk
    /\ candidate = "not_evaluated"

\* C7 as claimed: a discovery alert is a candidate iff both the positional
\* test against history[0] and the hostless test are true.
C7_Original ==
    (Filtered /\ Outcome # "NoDiscovery" /\ BothCutoutsPresent) =>
        (candidate = "True" <=> (PositionOk /\ HostlessOk))

\* C7 as amended: a discovery alert that carries both cutouts is a candidate
\* iff the hostless test is true; the position is not consulted.
C7_Amended ==
    (Filtered /\ Outcome # "NoDiscovery" /\ BothCutoutsPresent) =>
        /\ candidate \in {"True", "False"}
        /\ candidate = "True" <=> HostlessOk

\* C7 witness: a discovery whose position is inconsistent with history[0]
\* is a candidate and was published.
C7_Witness ==
    /\ Filtered
    /\ Outcome # "NoDiscovery"
    /\ BothCutoutsPresent
    /\ ~PositionOk
    /\ candidate = "True"
    /\ ~NothingPublished

\* C11: an alert whose template and science cutouts have different shapes
\* gets no decision but a failure: it is never a candidate, nothing is
\* published for it, and when it is a discovery the candidate check fails
\* instead of returning.
C11_MalformedFailClosed ==
    (Filtered /\ ShapesMismatch) =>
        /\ candidate # "True"
        /\ NothingPublished
        /\ (Outcome # "NoDiscovery" => candidate = "raised")

\* C12: for a discovery alert that carries no cutouts the candidate check
\* does not fail: the hostless test counts as true and the decision is that
\* of the positional test.
C12_NoCutoutsPositionOnly ==
    (Filtered /\ Outcome # "NoDiscovery" /\ NoCutouts) =>
        /\ candidate \in {"True", "False"}
        /\ candidate = "True" <=> PositionOk

\* C18: a request whose envelope does not unpack is answered 400 and nothing
\* is published; a request whose alert unpacks and whose checks complete is
\* answered 204, whether or not the alert was published.
C18_RunStatus ==
    pc = "responded" =>
        /\ (envelope.kind # "pubsub" =>
                (response.status = HTTP_400 /\ NothingPublished /\ candidate = "not_evaluated"))
        /\ ((envelope.kind = "pubsub" /\ candidate # "raised") =>
                response = [body |-> "", status |-> HTTP_204])

\* C18 witness: a discovery whose checks completed with nothing published
\* was answered 204.
C18_Witness ==
    /\ Filtered
    /\ Outcome # "NoDiscovery"
    /\ candidate = "False"
    /\ NothingPublished
    /\ response.status = HTTP_204

-----------------------------------------------------------------------------
(* Properties of _check_hostless_conditions (specification SpecCheck) *)

ScienceMasked == Cardinality(args.science_clipped.mask)

TemplateMasked == Cardinality(args.template_clipped.mask)

\* C8: the hostless condition on a pair of clipped images is true iff
\* (scienceMasked > 5 and templateMasked < 3) or (templateMasked > 5 and
\* scienceMasked < 3); a count of 3..5 on the clean side, or of at most 5 on
\* the detected side, yields false.
C8_HostlessConditions ==
    pc = "applied" =>
        /\ ret <=> \/ (ScienceMasked > 5 /\ TemplateMasked < 3)
                   \/ (TemplateMasked > 5 /\ ScienceMasked < 3)
        /\ (ScienceMasked >= 3 /\ TemplateMasked >= 3) => ~ret
        /\ (ScienceMasked <= 5 /\ TemplateMasked <= 5) => ~ret

\* C8 witness: the boundary pairs were applied: 6 and 2 masked pixels gave
\* true.
C8_Witness ==
    /\ pc = "applied"
    /\ ScienceMasked = 6
    /\ TemplateMasked = 2
    /\ ret = TRUE

-----------------------------------------------------------------------------
(* Properties of the two-pass detection (specification SpecHostless) *)

\* the hostless condition on the full stamps (pass 1)
Pass1 ==
    _check_hostless_conditions(
        sigma_clip(args.science_stamp, configs.sigma_clipping_kwargs),
        sigma_clip(args.template_stamp, configs.sigma_clipping_kwargs),
        configs.hostless_detection_with_clipping)

\* the hostless condition on the cropped stamps (pass 2)
Pass2 ==
    _check_hostless_conditions(
        sigma_clip(_crop_center_patch(args.science_stamp, 12), configs.sigma_clipping_kwargs),
        sigma_clip(_crop_center_patch(args.template_stamp, 12), configs.sigma_clipping_kwargs),
        configs.hostless_detection_with_clipping)

\* C9: the detection returns true at once, without cropping, when the
\* full-image condition is true; otherwise it crops and returns the condition
\* on the cropped science and template patches: result = pass1 or pass2.
C9_TwoPass ==
    pc = "applied" =>
        /\ Pass1 => (ret.returned /\ ~ret.cropped)
        /\ ~Pass1 => (ret.cropped /\ ret.returned = Pass2)
        /\ ret.returned = (Pass1 \/ Pass2)

\* C9 witness: pass 1 was inconclusive and the cropped pass returned true.
C9_Witness ==
    /\ pc = "applied"
    /\ ~Pass1
    /\ ret.cropped
    /\ ret.returned

\* C13: when the science and the template image are identical the detection
\* returns false, and it does so in both passes: the full-image condition is
\* false, the patches are cropped, and the condition on them is false too.
C13_IdenticalImages ==
    (pc = "applied" /\ args.science_stamp = args.template_stamp) =>
        /\ ~Pass1
        /\ ret.cropped
        /\ ~Pass2
        /\ ret.returned = FALSE

\* C13 witness: the same bright square, clipped to more than 5 masked
\* pixels, in both images, returned false.
C13_Witness ==
    /\ pc = "applied"
    /\ args.science_stamp = args.template_stamp
    /\ count_masked(args.science_stamp) > 5
    /\ ret.cropped
    /\ ret.returned = FALSE

\* the detection with the two stamps exchanged: the template given as
\* science and the science as template
Exchanged ==
    _run_hostless_detection_with_clipped_data(args.template_stamp, args.science_stamp, configs)

\* C21: the hostless result is symmetric in its two images: the detection
\* on (science, template) returns what it returns on (template, science), so
\* passing the stamps exchanged, as _is_candidate does, never changes the
\* decision.
C21_HostlessSymmetric ==
    pc = "applied" => ret.returned = Exchanged

\* C21 witness: two different images, the detection true through the
\* template alone (template clipped, science clean), and true exchanged.
C21_Witness ==
    /\ pc = "applied"
    /\ args.science_stamp # args.template_stamp
    /\ count_masked(args.template_stamp) > 5
    /\ count_masked(args.science_stamp) < 3
    /\ ret.returned
    /\ Exchanged

\* the raw pixel grid of a stamp: its data with nothing masked
Raw(stamp) == [stamp EXCEPT !.mask = {}]

\* the masked-pixel count of one sigma-clipping run on a raw grid
SingleRunCount(grid) == count_masked(sigma_clip(grid, configs.sigma_clipping_kwargs))

\* the centre patch of a stamp's raw grid
RawPatch(stamp) == _crop_center_patch(Raw(stamp), 12)

\* C17: the counts of pass 1 are those of a single sigma-clipping run on the
\* raw science and template grids; the patches of pass 2 are cropped from the
\* raw, unmasked grids, and the result is the condition on their single-run
\* counts.
C17_SingleClip ==
    pc = "applied" =>
        /\ SingleRunCount(args.science_stamp) = SingleRunCount(Raw(args.science_stamp))
        /\ SingleRunCount(args.template_stamp) = SingleRunCount(Raw(args.template_stamp))
        /\ ret.cropped =>
               /\ ret.patches = <<RawPatch(args.science_stamp), RawPatch(args.template_stamp)>>
               /\ ret.returned =
                      _check_hostless_conditions(
                          sigma_clip(RawPatch(args.science_stamp), configs.sigma_clipping_kwargs),
                          sigma_clip(RawPatch(args.template_stamp), configs.sigma_clipping_kwargs),
                          configs.hostless_detection_with_clipping)

-----------------------------------------------------------------------------
(* Properties of _crop_center_patch (specification SpecCrop) *)

\* the indices of an axis of length n within [c - r, c + r), c the
\* integer-truncated centre of the axis
CentredWindow(n, r) == {i \in 0..(n - 1) : n \div 2 - r <= i /\ i < n \div 2 + r}

\* the least element of a non-empty set of integers
Least(S) == CHOOSE i \in S : \A j \in S : i <= j

\* C10: the cropped patch is exactly the pixels with row and column index in
\* [c - r, c + r): it has the window's shape and holds the window's pixels in
\* place, so it is never a slice taken from the end of a narrow axis.
C10_CentredPatch ==
    pc = "applied" =>
        LET img  == args.input_image
            rows == CentredWindow(img.shape[1], args.patch_radius)
            cols == CentredWindow(img.shape[2], args.patch_radius)
        IN  /\ ret.shape = <<Cardinality(rows), Cardinality(cols)>>
            /\ \A p \in Idx(ret.shape) :
                   ret.data[p] = img.data[<<Least(rows) + p[1], Least(cols) + p[2]>>]

-----------------------------------------------------------------------------
(* Properties of the positional test (specification SpecPosition) *)

\* the angular separation of the current detection from the prior one, in
\* milliarcseconds
SeparationMas == Abs(args.alert.dec - args.alert.prv_sources[1].dec)

\* the square of the combined uncertainty, in milliarcseconds squared
CombinedUncertaintySq ==
    args.alert.ra_err * args.alert.ra_err + args.alert.dec_err * args.alert.dec_err
    + args.alert.prv_sources[1].raErr * args.alert.prv_sources[1].raErr
    + args.alert.prv_sources[1].decErr * args.alert.prv_sources[1].decErr

\* C14: the positional test is true iff the separation is at most 3 times
\* the combined uncertainty sqrt(ra_err^2 + dec_err^2 + prev_ra_err^2 +
\* prev_dec_err^2), both in one unit: a separation of exactly 3 times the
\* combined uncertainty is accepted, a larger one rejected.
C14_PositionalBoundary ==
    pc = "applied" =>
        (ret <=> SeparationMas * SeparationMas <= 9 * CombinedUncertaintySq)

-----------------------------------------------------------------------------
(* Properties of the SuperNNova handlers (specification SpecSuperNNova) *)

\* the requests answered so far whose envelope unpacked, in order
RECURSIVE ValidRequests(_)
ValidRequests(log) ==
    IF log = <<>> THEN <<>>
    ELSE IF Head(log).envelope.kind = "pubsub"
         THEN <<Head(log).envelope.message>> \o ValidRequests(Tail(log))
         ELSE ValidRequests(Tail(log))

\* the deployed module is one of the two built on pittgoogle
PittGoogleBased == args.module \in {"SuperNNova", "cloud-run/SuperNNova"}

\* the number of requests received so far; they are numbered from 1
Received == Len(ret) + Cardinality(Busy)

\* the names of the calls request r made, in order
RECURSIVE CallsOf(_, _)
CallsOf(log, r) ==
    IF log = <<>> THEN <<>>
    ELSE (IF Head(log).request = r THEN <<Head(log).call>> ELSE <<>>)
             \o CallsOf(Tail(log), r)

IsPrefix(s, t) == Len(s) <= Len(t) /\ \A i \in 1..Len(s) : s[i] = t[i]

ClassifyPublishInsert == <<"classify_lcs", "publish", "insert_rows">>

\* the ids of the alerts
ClassifierAlertIds == {a.alertid : a \in ClassifierAlerts}

\* the number of calls of the given name made for alert a
CallsWith(name, a) ==
    Cardinality({i \in 1..Len(calls) : calls[i].call = name /\ calls[i].alertId = a})

\* the number of messages in TOPIC, and of rows in TABLE, for alert a
Messages(a) == Cardinality({i \in 1..Len(TOPIC) : TOPIC[i].dict.alertId = a})

Rows(a) == Cardinality({i \in 1..Len(TABLE) : TABLE[i].alertId = a})

\* every request makes its calls in the order classify, publish, insert,
\* each once at most, and every row in TABLE has its message in TOPIC
InOrder ==
    /\ \A r \in 1..Received : IsPrefix(CallsOf(calls, r), ClassifyPublishInsert)
    /\ \A a \in ClassifierAlertIds : Messages(a) = CallsWith("publish", a)
    /\ \A i \in 1..Len(TABLE) :
           \E j \in 1..Len(TOPIC) :
               /\ TOPIC[j].dict.alertId = TABLE[i].alertId
               /\ TOPIC[j].dict.classifications[1].probability = TABLE[i].prob_class0

\* a request whose envelope raises BadRequest is answered 400 and made no call
BadRequestsRefused ==
    \A i \in 1..Len(ret) :
        ret[i].envelope.kind # "pubsub" =>
            /\ ret[i].response.status = HTTP_400
            /\ CallsOf(calls, ret[i].request) = <<>>

\* C19 as stated: every request with a valid envelope is answered 204 after
\* exactly one classification, then one publish of its outgoing alert to
\* TOPIC, then one row insert into TABLE, in that order; a request whose
\* envelope raises BadRequest is answered 400 and is not classified,
\* published or inserted.
C19_ClassifyPublishInsert ==
    PittGoogleBased =>
        /\ InOrder
        /\ BadRequestsRefused
        /\ \A i \in 1..Len(ret) :
               ret[i].envelope.kind = "pubsub" =>
                   /\ ret[i].response.status = HTTP_204
                   /\ CallsOf(calls, ret[i].request) = ClassifyPublishInsert
        /\ \A a \in ClassifierAlertIds : Rows(a) = CallsWith("insert_rows", a)

-----------------------------------------------------------------------------
(* Properties of the MicroLIA handler (specification SpecMicroLIA) *)

\* C20: every request whose envelope is a dict with a "message" is
\* classified, has one row inserted into the BigQuery table and one message
\* published to the Pub/Sub topic, and is answered 204; an empty or malformed
\* envelope is answered 400 with no insert and no publish.
C20_MicroLIAHandler ==
    LET valid == ValidRequests(ret)
    IN  /\ \A i \in 1..Len(ret) :
               ret[i].response.status =
                   (IF ret[i].envelope.kind = "pubsub" THEN 204 ELSE 400)
        /\ Len(bq_table) = Len(valid)
        /\ Len(ps_topic) = Len(valid)
        /\ \A k \in 1..Len(valid) :
               /\ bq_table[k].alertId = valid[k].alertid
               /\ ps_topic[k].alertId = valid[k].alertid
               /\ \E j \in 1..Len(calls) : calls[j] = Call("predict", valid[k].alertid)

-----------------------------------------------------------------------------
(* Properties of concurrent requests (specification SpecConcurrent) *)

\* what the endpoint does with an envelope when the request is processed
\* alone: the decision, the response and the publications
Alone(env) ==
    IF ~from_cloud_run(env).ok
    THEN [is_intra_night_discovery |-> FALSE, is_inter_night_discovery |-> FALSE,
          candidate |-> "not_evaluated",
          response |-> [body |-> from_cloud_run(env).exc, status |-> HTTP_400],
          publish_intra |-> <<>>, publish_inter |-> <<>>]
    ELSE LET f == filter_alert(from_cloud_run(env).alert)
         IN  [is_intra_night_discovery |-> f.is_intra_night_discovery,
              is_inter_night_discovery |-> f.is_inter_night_discovery,
              candidate |-> f.candidate,
              response |-> IF f.raised
                           THEN [body |-> "Internal Server Error", status |-> 500]
                           ELSE f.returned,
              publish_intra |-> f.publish_intra, publish_inter |-> f.publish_inter]

\* Alone, tabulated over the envelopes of the concurrent requests
AloneOf == [env \in ConcurrentEnvelopes |-> Alone(env)]

\* the number of entries of a sequence that equal x
Count(seq, x) == Cardinality({i \in 1..Len(seq) : seq[i] = x})

\* the requests that are past the publication of filter_alert: the answered
\* ones, and those that wait in publish
RECURSIVE Waiting(_)
Waiting(n) ==
    IF n = 0 THEN <<>>
    ELSE Waiting(n - 1) \o (IF pc[n] = "published" THEN <<[envelope |-> envelope[n]]>>
                                                     ELSE <<>>)

PastPublish == ret \o Waiting(NWorkers)

\* the publications of a sequence of requests, had each been processed alone
RECURSIVE AlonePublications(_, _)
AlonePublications(log, topic) ==
    IF log = <<>> THEN <<>>
    ELSE AloneOf[Head(log).envelope][topic] \o AlonePublications(Tail(log), topic)

\* C15: under every interleaving of concurrent requests, and after requests
\* that failed, every answered request has the decision and the response it
\* gets when processed alone, and the topics hold exactly the publications
\* that the requests past their publication make when processed alone, each
\* as many times (the topics order them by the time of the call of publish,
\* not by the time of the answer).
C15_ConcurrentIndependence ==
    /\ \A i \in 1..Len(ret) :
           \E a \in {AloneOf[ret[i].envelope]} :
               /\ ret[i].is_intra_night_discovery = a.is_intra_night_discovery
               /\ ret[i].is_inter_night_discovery = a.is_inter_night_discovery
               /\ ret[i].candidate = a.candidate
               /\ ret[i].response = a.response
    /\ Len(intra_topic) = Len(AlonePublications(PastPublish, "publish_intra"))
    /\ Len(inter_topic) = Len(AlonePublications(PastPublish, "publish_inter"))
    /\ \A env \in ConcurrentEnvelopes :
           env.kind = "pubsub" =>
               /\ Count(intra_topic, env.message) =
                      Count(AlonePublications(PastPublish, "publish_intra"), env.message)
               /\ Count(inter_topic, env.message) =
                      Count(AlonePublications(PastPublish, "publish_inter"), env.message)

\* C15 witness: after a request that failed, a candidate was published and
\* answered by one worker while the other worker, which had published its
\* candidate to the same topic before, was still waiting in publish.
C15_Witness ==
    /\ Len(ret) = 2
    /\ ret[1].response.status \in {HTTP_400, 500}
    /\ ret[2].candidate = "True"
    /\ ret[2].is_intra_night_discovery
    /\ Len(intra_topic) = 2
    /\ \E w \in Workers : pc[w] = "published" /\ candidate[Frame(w)] = "True"

\* C16: two requests that carry the same alert get the same outcome and the
\* same candidate value.
C16_Deterministic ==
    \A i, j \in 1..Len(ret) :
        ret[i].envelope = ret[j].envelope =>
            /\ ret[i].is_intra_night_discovery = ret[j].is_intra_night_discovery
            /\ ret[i].is_inter_night_discovery = ret[j].is_inter_night_discovery
            /\ ret[i].candidate = ret[j].candidate

\* C16 witness: the same discovery alert was answered twice, as a candidate
\* both times, with a request that failed in between.
C16_Witness ==
    /\ Len(ret) = 3
    /\ ret[1].envelope = ret[3].envelope
    /\ ret[1].envelope.kind = "pubsub"
    /\ ret[1].candidate = "True"
    /\ ret[3].candidate = "True"
    /\ ret[2].response.status \in {HTTP_400, 500}

=============================================================================
